---- MODULE Spec2Model ----
(***************************************************************************)
(* Model of the credential pool (src/key-pool.js, class KeyPoolManager),  *)
(* of the access-key guard (src/index.js, userAuthMiddleware, with the     *)
(* token store of src/db.js), of the admin routes on keys and of the       *)
(* handler of /api/process-image.                                          *)
(*                                                                         *)
(* Time is Date.now() in milliseconds, counted from 2025-10-08T00:00:00Z   *)
(* (the date floor hard-coded in the expiration route), so that every      *)
(* timestamp fits TLC's integers.  The clock only moves forward.           *)
(***************************************************************************)
EXTENDS Integers, Sequences, FiniteSets, TLC

(* ------------------------------ bounds -------------------------------- *)
\* number of API keys in gemini-keys.json
NumKeys == 2
\* number of distinct callers of the pool
NumUsers == 3
\* the clock at process start (ms after the origin)
StartTime == 1000000
\* how far the clock moves in one step of the pool specification (ms)
PoolStep == 60000
\* how many times the clock moves in the pool specification
PoolTicks == 8
\* number of access keys the admin creates
MaxRecords == 1
\* number of requests that can be in flight at once
NumReqs == 2
\* number of client addresses and of user-agent strings
NumIps == 2
NumAgents == 2
\* requests are started only while every requestCount is below this
MaxCount == 2
\* how far the clock moves in one step of the guard specification (ms)
AuthStep == 15000
\* how many times the clock moves in the guard specification
AuthTicks == 3
\* how far and how many times the clock moves in the handler specification
HandlerStep == 150000
HandlerTicks == 3
\* number of record objects ever made, by createKey or by db.read()
MaxObjects == 2
NumClients == 2

(* ------------------------- src/key-pool.js ---------------------------- *)
KEY_LOCK_DURATION == 2 * 60 * 1000
KEY_ERROR_COOLDOWN == 5 * 60 * 1000

\* JavaScript's null (and the 0 that the pool stores for "no timestamp")
Null == 0

\* The keys of the Map, numbered in insertion order: Map iteration follows it.
Keys == 1..NumKeys
\* A value that is not in the Map.
UnknownKey == NumKeys + 1
Users == 1..NumUsers

VARIABLES
    keys,       \* KeyPoolManager.keys: key -> {status, user, lastUsed, errorSince}
    now,        \* Date.now()
    last,       \* the last call of the pool, what it returned, and whether the
                \* lease of the key it returned was stale at the call
    recs,       \* the key records ever created (the objects), in creation order
    dbKeys,     \* db.data.keys: the records in the store, as indexes into recs
    appCache,   \* appCache: provided key -> cached copy of its record
    req,        \* the requests going through userAuthMiddleware
    admin,      \* the last request to an admin route and its response
    job         \* the requests in the handler of /api/process-image

poolvars == <<keys, last>>
authvars == <<recs, dbKeys, appCache, req>>
routevars == <<admin, job>>
vars == <<keys, now, last, recs, dbKeys, appCache, req, admin, job>>

NewKeyState == [status |-> "available", user |-> Null, lastUsed |-> 0, errorSince |-> 0]

KeyState == [status : {"available", "in_use", "error"},
             user : Users \cup {Null},
             lastUsed : Nat,
             errorSince : Nat]

TypeOK ==
    /\ keys \in [Keys -> KeyState]
    /\ now \in Nat
    /\ last \in [op : {"none", "getKeyForUser", "reportError"},
                 user : Users \cup {Null},
                 key : Keys \cup {Null, UnknownKey},
                 was : {"available", "in_use", "error", "-"},
                 path : {"active", "assigned", "null", "-"},
                 stale : BOOLEAN]

\* loadKeys: every key of the file enters the Map once, available.
loadKeys == [k \in Keys |-> NewKeyState]

\* Mutant: the last element in iteration order.
FirstKey_Last(S) == IF S = {} THEN Null ELSE CHOOSE k \in S : \A j \in S : k >= j

\* The first element of a set of keys in iteration order, or null.
FirstKey(S) == IF S = {} THEN Null ELSE CHOOSE k \in S : \A j \in S : k <= j

\* Mutant: a lease counts as stale already at KEY_LOCK_DURATION.
isStale_AtLeast(state) == now - state.lastUsed >= KEY_LOCK_DURATION

isStale(state) == now - state.lastUsed > KEY_LOCK_DURATION

\* Mutant: the cooldown is measured with the lease duration.
isErrorExpired_LockDuration(state) == now - state.errorSince > KEY_LOCK_DURATION

isErrorExpired(state) == now - state.errorSince > KEY_ERROR_COOLDOWN

\* Mutant: stale leases are never handed out again.
IsAvailable_NoStale(state) ==
    \/ state.status = "available"
    \/ (state.status = "error" /\ isErrorExpired(state))

\* The condition of the second loop of getKeyForUser.
IsAvailable(state) ==
    \/ state.status = "available"
    \/ (state.status = "in_use" /\ isStale(state))
    \/ (state.status = "error" /\ isErrorExpired(state))

\* Mutant: the first loop gives up a key whose lease is stale when another
\* key can be handed out.
ActiveKey_FreshOrOnly(userId) ==
    LET held == {k \in Keys : keys[k].user = userId /\ keys[k].status = "in_use"}
        free == {k \in Keys \ held : IsAvailable(keys[k])}
    IN  FirstKey({k \in held : ~isStale(keys[k]) \/ free = {}})

\* Mutant: the first loop tests the wrong status, so it never finds a key.
ActiveKey_WrongStatus(userId) ==
    FirstKey({k \in Keys : keys[k].user = userId /\ keys[k].status = "available"})

\* Mutant: the first loop skips a key whose lease is stale.
ActiveKey_OnlyFresh(userId) ==
    FirstKey({k \in Keys : keys[k].user = userId /\ keys[k].status = "in_use"
                              /\ ~isStale(keys[k])})

\* First loop: the key the user already holds.
ActiveKey(userId) ==
    FirstKey({k \in Keys : keys[k].user = userId /\ keys[k].status = "in_use"})

\* Second loop: the first key that can be handed out.
AvailableKey == FirstKey({k \in Keys : IsAvailable(keys[k])})

\* The state a new entry of the Map would get from a report.
ErrorState_New == [status |-> "error", user |-> Null, lastUsed |-> 0, errorSince |-> now]

\* Mutant: the assignment does not clear errorSince.
AssignedState_KeepsErrorSince(userId) ==
    [status |-> "in_use", user |-> userId, lastUsed |-> now, errorSince |-> now]

\* Mutant: the lease is not stamped.
AssignedState_NoStamp(userId) ==
    [status |-> "in_use", user |-> userId, lastUsed |-> 0, errorSince |-> 0]

AssignedState(userId) ==
    [status |-> "in_use", user |-> userId, lastUsed |-> now, errorSince |-> 0]

getKeyForUser(userId) ==
    LET active == ActiveKey(userId)
        availableKey == AvailableKey
    IN  /\ IF active /= Null
           THEN /\ keys' = [keys EXCEPT ![active].lastUsed = now]
                /\ last' = [op |-> "getKeyForUser", user |-> userId, key |-> active,
                            was |-> keys[active].status, path |-> "active",
                            stale |-> isStale(keys[active])]
           ELSE IF availableKey /= Null
           THEN /\ keys' = [keys EXCEPT ![availableKey] = AssignedState(userId)]
                /\ last' = [op |-> "getKeyForUser", user |-> userId, key |-> availableKey,
                            was |-> keys[availableKey].status, path |-> "assigned",
                            stale |-> isStale(keys[availableKey])]
           ELSE /\ keys' = keys
                /\ last' = [op |-> "getKeyForUser", user |-> userId, key |-> Null,
                            was |-> "-", path |-> "null", stale |-> FALSE]

\* Mutant: a value that is not in the Map gets an entry.
reportError_AnyValue(apiKey) ==
    /\ keys' = [k \in DOMAIN keys \cup {apiKey} |->
                   IF k = apiKey THEN ErrorState_New ELSE keys[k]]
    /\ last' = [op |-> "reportError", user |-> Null, key |-> apiKey,
                was |-> IF apiKey \in Keys THEN keys[apiKey].status ELSE "-",
                path |-> "-", stale |-> FALSE]

\* Mutant: a reported key is released instead of quarantined.
ErrorState_Release(state) ==
    [state EXCEPT !.status = "available", !.user = Null, !.errorSince = now]

\* Mutant: a reported key stays with its user.
ErrorState_KeepsUser(state) == [state EXCEPT !.status = "error", !.errorSince = now]

\* Mutant: a key that is already in error keeps its first errorSince.
ErrorState_KeepsFirstStamp(state) ==
    IF state.status = "error" THEN state
    ELSE [state EXCEPT !.status = "error", !.user = Null, !.errorSince = now]

ErrorState(state) == [state EXCEPT !.status = "error", !.user = Null, !.errorSince = now]

reportError(apiKey) ==
    /\ IF apiKey \in Keys
       THEN keys' = [keys EXCEPT ![apiKey] = ErrorState(keys[apiKey])]
       ELSE keys' = keys
    /\ last' = [op |-> "reportError", user |-> Null, key |-> apiKey,
                was |-> IF apiKey \in Keys THEN keys[apiKey].status ELSE "-",
                path |-> "-", stale |-> FALSE]

\* Time passes between two calls.
Tick(d) ==
    /\ now' = now + d
    /\ UNCHANGED <<poolvars, authvars, routevars>>

PoolHorizon == StartTime + PoolTicks * PoolStep

\* No admin request yet.
IdleAdmin == [op |-> "none", pc |-> "done", status |-> 0, body |-> <<>>]

\* A request that has not reached the handler of /api/process-image.
IdleJob == [pc |-> "idle", apiKey |-> Null, status |-> 0]

IdleRequest ==
    [pc |-> "idle", providedKey |-> Null, ip |-> Null, userAgent |-> Null,
     keyData |-> Null, isLocked |-> FALSE, updatedKeyData |-> Null, result |-> "-"]

Init ==
    /\ keys = loadKeys
    /\ now = StartTime
    /\ last = [op |-> "none", user |-> Null, key |-> Null, was |-> "-", path |-> "-",
               stale |-> FALSE]
    /\ recs = <<>>
    /\ dbKeys = <<>>
    /\ appCache = <<>>
    /\ req = [r \in 1..NumReqs |-> IdleRequest]
    /\ admin = IdleAdmin
    /\ job = [r \in 1..NumReqs |-> IdleJob]

Acquire ==
    /\ \E userId \in Users : getKeyForUser(userId)
    /\ UNCHANGED <<now, authvars, routevars>>

Report ==
    /\ \E apiKey \in Keys \cup {UnknownKey} : reportError(apiKey)
    /\ UNCHANGED <<now, authvars, routevars>>

PoolTick == now < PoolHorizon /\ Tick(PoolStep)

NextPool == Acquire \/ Report \/ PoolTick

SpecPool == Init /\ [][NextPool]_vars

(* ------------------- src/db.js and src/index.js ----------------------- *)
\* The access keys are numbered in the order createKey issues them; the
\* record of key t is recs[t].
Tokens == 1..MaxRecords
\* a key that createKey never returned
UnknownToken == MaxRecords + 1
Reqs == 1..NumReqs
Ips == 1..NumIps
UserAgents == 1..NumAgents

LOCK_DURATION == 30 * 1000
MsPerDay == 24 * 60 * 60 * 1000
\* new Date('2025-10-08T00:00:00.000Z'), the origin of the clock
FloorDate == 0
\* the validityDays the admin asks for (the route accepts 1..365)
ValidityDays == {1}
\* the dates the admin sets an expiration to
ExpirationDates == {StartTime + AuthStep}

\* bcrypt.hash: a digest that only the hashed key matches.
Hash(key) == <<"bcrypt", key>>
\* bcrypt.compare
Compare(key, keyHash) == keyHash = Hash(key)

\* createKey: the record pushed to db.data.keys.  Timestamps are stored as
\* ISO strings with millisecond precision and read back with new Date(), which
\* gives the same millisecond, so the model keeps the number.
NewKeyData(key, validityDays) ==
    [keyHash |-> Hash(key),
     creationDate |-> now,
     expirationDate |-> now + validityDays * MsPerDay,
     requestCount |-> 0,
     lastUsedIp |-> Null,
     lastUsedTime |-> Null,
     lastUsedUserAgent |-> Null]

createKey(validityDays) ==
    /\ Len(recs) < MaxRecords
    /\ recs' = Append(recs, NewKeyData(Len(recs) + 1, validityDays))
    /\ dbKeys' = Append(dbKeys, Len(recs) + 1)
    /\ UNCHANGED <<appCache, req, now, poolvars, job>>

\* findIndex(k => k.creationDate === creationDateISO): position in dbKeys, or 0
IndexByCreationDate(creationDate) ==
    LET hits == {i \in 1..Len(dbKeys) : recs[dbKeys[i]].creationDate = creationDate}
    IN  IF hits = {} THEN 0 ELSE CHOOSE i \in hits : \A j \in hits : i <= j

\* PATCH /admin/api/keys/expiration with updateKeyExpiration
updateKeyExpiration(creationDate, newDate) ==
    /\ newDate >= FloorDate
    /\ IndexByCreationDate(creationDate) /= 0
    /\ recs' = [recs EXCEPT ![dbKeys[IndexByCreationDate(creationDate)]].expirationDate = newDate]
    /\ UNCHANGED <<dbKeys, appCache, req, now, poolvars, routevars>>

\* Mutant: the result of bcrypt.compare is not looked at.
findAndValidateKey_AnyRecord(key) == IF Len(dbKeys) = 0 THEN Null ELSE dbKeys[1]

\* findAndValidateKey: the first record of the store whose hash the key matches
findAndValidateKey(key) ==
    LET hits == {i \in 1..Len(dbKeys) : Compare(key, recs[dbKeys[i]].keyHash)}
    IN  IF hits = {} THEN Null ELSE dbKeys[CHOOSE i \in hits : \A j \in hits : i <= j]

\* Mutant: the comparison the other way round.
isExpired_Inverted(keyData) == keyData.expirationDate > now

\* new Date() > new Date(keyData.expirationDate)
isExpired(keyData) == now > keyData.expirationDate

\* Mutant: a record that was never used counts as locked.
isLocked_NeverUsed(keyData) ==
    keyData.lastUsedTime = Null \/ now - keyData.lastUsedTime < LOCK_DURATION

\* Mutant: the lock still holds at exactly LOCK_DURATION.
isLocked_Inclusive(keyData) ==
    keyData.lastUsedTime /= Null /\ now - keyData.lastUsedTime <= LOCK_DURATION

\* lastUsed && (now - lastUsed) < LOCK_DURATION
isLocked(keyData) ==
    keyData.lastUsedTime /= Null /\ now - keyData.lastUsedTime < LOCK_DURATION

\* Mutant: only a change of both ip and user agent counts.
isDifferentDevice_Both(keyData, currentIp, currentUserAgent) ==
    keyData.lastUsedIp /= currentIp /\ keyData.lastUsedUserAgent /= currentUserAgent

\* Mutant: the ip is compared with the user agent and the other way round.
isDifferentDevice_Swapped(keyData, currentIp, currentUserAgent) ==
    keyData.lastUsedIp /= currentUserAgent \/ keyData.lastUsedUserAgent /= currentIp

isDifferentDevice(keyData, currentIp, currentUserAgent) ==
    keyData.lastUsedIp /= currentIp \/ keyData.lastUsedUserAgent /= currentUserAgent

\* incrementKeyUsage, the synchronous update of the record
UsedKeyData(keyData, ip, userAgent) ==
    [keyData EXCEPT !.requestCount = @ + 1,
                    !.lastUsedIp = ip,
                    !.lastUsedUserAgent = userAgent,
                    !.lastUsedTime = now]

\* findIndex(k => k.keyHash === keyHash): the record in the store, or null
IndexByHash(keyHash) ==
    LET hits == {i \in 1..Len(dbKeys) : recs[dbKeys[i]].keyHash = keyHash}
    IN  IF hits = {} THEN Null ELSE dbKeys[CHOOSE i \in hits : \A j \in hits : i <= j]

\* A request enters userAuthMiddleware: without a key it is answered at once,
\* with one it waits for db.findAndValidateKey(providedKey), which picks the
\* record object out of db.data.keys as the store is then; the checks run
\* when bcrypt.compare has answered, which is a later turn of the event loop.
StartRequest(r, providedKey, ip, userAgent) ==
    /\ req[r].pc \in {"idle", "done"}
    /\ job[r].pc \in {"idle", "done"}
    /\ \A i \in 1..Len(recs) : recs[i].requestCount < MaxCount
    /\ req' = [req EXCEPT ![r] =
                  IF providedKey = Null
                  THEN [IdleRequest EXCEPT !.pc = "done", !.result = "401_required"]
                  ELSE [IdleRequest EXCEPT !.pc = "check", !.providedKey = providedKey,
                                           !.ip = ip, !.userAgent = userAgent,
                                           !.keyData = findAndValidateKey(providedKey)]]
    /\ job' = [job EXCEPT ![r] = IdleJob]
    /\ UNCHANGED <<recs, dbKeys, appCache, now, poolvars, admin>>

\* Mutant: the checks read the cached copy of the record when there is one.
Check_CachedRecord(r) ==
    /\ req[r].pc = "check"
    /\ LET keyData == IF req[r].providedKey \in DOMAIN appCache
                      THEN appCache[req[r].providedKey]
                      ELSE recs[req[r].keyData]
       IN  req' = [req EXCEPT ![r] =
              IF req[r].keyData = Null
              THEN [@ EXCEPT !.pc = "done", !.result = "401_invalid"]
              ELSE IF isExpired(keyData)
              THEN [@ EXCEPT !.pc = "done", !.result = "401_expired"]
              ELSE IF isLocked(keyData)
                      /\ isDifferentDevice(keyData, req[r].ip, req[r].userAgent)
              THEN [@ EXCEPT !.pc = "done", !.isLocked = TRUE, !.result = "429_device"]
              ELSE [@ EXCEPT !.pc = "increment", !.isLocked = isLocked(keyData)]]
    /\ UNCHANGED <<recs, dbKeys, appCache, now, poolvars, routevars>>

\* From the return of findAndValidateKey to the call of incrementKeyUsage,
\* which suspends at its first await before it touches the record.
Check(r) ==
    /\ req[r].pc = "check"
    /\ LET keyData == recs[req[r].keyData]
       IN  req' = [req EXCEPT ![r] =
              IF req[r].keyData = Null
              THEN [@ EXCEPT !.pc = "done", !.result = "401_invalid"]
              ELSE IF isExpired(keyData)
              THEN [@ EXCEPT !.pc = "done", !.result = "401_expired"]
              ELSE IF isLocked(keyData)
                      /\ isDifferentDevice(keyData, req[r].ip, req[r].userAgent)
              THEN [@ EXCEPT !.pc = "done", !.isLocked = TRUE, !.result = "429_device"]
              ELSE [@ EXCEPT !.pc = "increment", !.isLocked = isLocked(keyData)]]
    /\ UNCHANGED <<recs, dbKeys, appCache, now, poolvars, routevars>>

\* incrementKeyUsage up to its await db.write()
Increment(r) ==
    /\ req[r].pc = "increment"
    /\ LET found == IndexByHash(recs[req[r].keyData].keyHash)
       IN  /\ recs' = IF found = Null THEN recs
                      ELSE [recs EXCEPT ![found] =
                               UsedKeyData(recs[found], req[r].ip, req[r].userAgent)]
           /\ req' = [req EXCEPT ![r].pc = "finish", ![r].updatedKeyData = found]
    /\ UNCHANGED <<dbKeys, appCache, now, poolvars, routevars>>

\* appCache.set(key, value): node-cache stores a copy of the value.  (Its TTL
\* of 7200 s is far beyond the horizon of the model.)
CacheSet(key, value) ==
    [t \in DOMAIN appCache \cup {key} |-> IF t = key THEN value ELSE appCache[t]]

\* incrementKeyUsage returns; the record is cached and next() is called, which
\* runs the handler of the route.
Finish(r) ==
    /\ req[r].pc = "finish"
    /\ appCache' = IF req[r].updatedKeyData = Null THEN appCache
                   ELSE CacheSet(req[r].providedKey, recs[req[r].updatedKeyData])
    /\ req' = [req EXCEPT ![r].pc = "done", ![r].result = "next"]
    /\ UNCHANGED <<recs, dbKeys, now, admin>>

\* POST /api/validate-key: the handler answers 200 and touches nothing.
validateKey(r) == Finish(r) /\ UNCHANGED <<poolvars, job>>

\* Mutant: the route runs its handler without waiting for the middleware.
processImage_Unguarded(r, image) ==
    /\ req[r].pc = "check"
    /\ req' = [req EXCEPT ![r].pc = "done", ![r].result = "next"]
    /\ getKeyForUser(req[r].providedKey)
    /\ job' = [job EXCEPT ![r] =
                  IF last'.key = Null
                  THEN [pc |-> "done", apiKey |-> Null, status |-> 503]
                  ELSE IF ~image
                  THEN [pc |-> "done", apiKey |-> last'.key, status |-> 400]
                  ELSE [pc |-> "upstream", apiKey |-> last'.key, status |-> 0]]
    /\ UNCHANGED <<recs, dbKeys, appCache, now, admin>>

\* POST /api/process-image from next() to the first await of the handler or
\* to its response: 503 without a key, 400 without image or mimeType.
processImage(r, image) ==
    /\ Finish(r)
    /\ getKeyForUser(req[r].providedKey)
    /\ job' = [job EXCEPT ![r] =
                  IF last'.key = Null
                  THEN [pc |-> "done", apiKey |-> Null, status |-> 503]
                  ELSE IF ~image
                  THEN [pc |-> "done", apiKey |-> last'.key, status |-> 400]
                  ELSE [pc |-> "upstream", apiKey |-> last'.key, status |-> 0]]

\* model.generateContentStream(...) has answered and the first chunk is
\* written: the headers are sent.
generateContentStream(r) ==
    /\ job[r].pc = "upstream"
    /\ job' = [job EXCEPT ![r].pc = "stream"]
    /\ UNCHANGED <<now, poolvars, authvars, admin>>

\* The stream is finished: res.end().
streamEnd(r) ==
    /\ job[r].pc = "stream"
    /\ job' = [job EXCEPT ![r].pc = "done", ![r].status = 200]
    /\ UNCHANGED <<now, poolvars, authvars, admin>>

\* Mutant: the catch answers without reporting the key.
catchError_NoReport(r) ==
    /\ job[r].pc \in {"upstream", "stream"}
    /\ job' = [job EXCEPT ![r].pc = "done",
                          ![r].status = IF job[r].pc = "upstream" THEN 500 ELSE 200]
    /\ UNCHANGED <<now, poolvars, authvars, admin>>

\* An await of the try block throws: the catch reports the key and answers
\* 500, or ends the response when its headers are already sent.
catchError(r) ==
    /\ job[r].pc \in {"upstream", "stream"}
    /\ reportError(job[r].apiKey)
    /\ job' = [job EXCEPT ![r].pc = "done",
                          ![r].status = IF job[r].pc = "upstream" THEN 500 ELSE 200]
    /\ UNCHANGED <<now, authvars, admin>>

(* ------------------- src/index.js, the admin routes -------------------- *)
\* process.env.ADMIN_KEY
ADMIN_KEY == 1
\* the x-admin-key header of a request: missing, right, wrong
AdminKeys == {Null, ADMIN_KEY, ADMIN_KEY + 1}
\* the name in the body of a create request: missing, or a non-empty string
KeyName == 1
Names == {Null, KeyName}

\* adminAuthMiddleware calls next() only for the configured key
adminAuthMiddleware(providedAdminKey) == providedAdminKey = ADMIN_KEY

\* res.status(status).json(body)
Reply(op, status, body) == [op |-> op, pc |-> "done", status |-> status, body |-> body]

\* POST /admin/api/keys.  (A missing validityDays parses to NaN; Null, being
\* 0, fails the same test as NaN does.)
postKeys(providedAdminKey, name, validityDays) ==
    /\ admin.pc = "done"
    /\ IF ~adminAuthMiddleware(providedAdminKey)
       THEN /\ admin' = Reply("postKeys", 401, <<>>)
            /\ UNCHANGED <<recs, dbKeys, appCache, req, now, poolvars, job>>
       ELSE IF name = Null
       THEN /\ admin' = Reply("postKeys", 400, <<>>)
            /\ UNCHANGED <<recs, dbKeys, appCache, req, now, poolvars, job>>
       ELSE IF validityDays < 1 \/ validityDays > 365
       THEN /\ admin' = Reply("postKeys", 400, <<>>)
            /\ UNCHANGED <<recs, dbKeys, appCache, req, now, poolvars, job>>
       ELSE /\ createKey(validityDays)
            /\ admin' = Reply("postKeys", 201, <<Len(recs) + 1>>)

\* ({ keyHash, ...rest }) => rest
StripHash(keyData) == [f \in (DOMAIN keyData) \ {"keyHash"} |-> keyData[f]]

\* getAllKeysForAdmin: db.read() parses the file into fresh objects, which
\* replace the ones in db.data.keys; a request that already holds a record
\* keeps the old object.  Every change of db.data is followed by db.write()
\* in the same turn, and the model takes the file to hold what was written.
getAllKeysForAdmin ==
    /\ Len(recs) + Len(dbKeys) <= MaxObjects
    /\ recs' = recs \o [i \in 1..Len(dbKeys) |-> recs[dbKeys[i]]]
    /\ dbKeys' = [i \in 1..Len(dbKeys) |-> Len(recs) + i]

\* GET /admin/api/keys
getKeys(providedAdminKey) ==
    /\ admin.pc = "done"
    /\ IF ~adminAuthMiddleware(providedAdminKey)
       THEN /\ admin' = Reply("getKeys", 401, <<>>)
            /\ UNCHANGED <<recs, dbKeys>>
       ELSE /\ getAllKeysForAdmin
            /\ admin' = Reply("getKeys", 200,
                              [i \in 1..Len(dbKeys) |-> StripHash(recs[dbKeys[i]])])
    /\ UNCHANGED <<appCache, req, now, poolvars, job>>

\* deleteKeyByCreationDate up to its await db.write()
deleteKeyByCreationDate(creationDate) ==
    dbKeys' = SelectSeq(dbKeys, LAMBDA i : recs[i].creationDate /= creationDate)

\* DELETE /admin/api/keys up to the await in deleteKeyByCreationDate
deleteKeys(providedAdminKey, creationDate) ==
    /\ admin.pc = "done"
    /\ IF ~adminAuthMiddleware(providedAdminKey)
       THEN admin' = Reply("deleteKeys", 401, <<>>) /\ dbKeys' = dbKeys
       ELSE IF creationDate = Null
       THEN admin' = Reply("deleteKeys", 400, <<>>) /\ dbKeys' = dbKeys
       ELSE IF IndexByCreationDate(creationDate) = 0
       THEN admin' = Reply("deleteKeys", 404, <<>>) /\ dbKeys' = dbKeys
       ELSE /\ deleteKeyByCreationDate(creationDate)
            /\ admin' = [op |-> "deleteKeys", pc |-> "flush", status |-> 0, body |-> <<>>]
    /\ UNCHANGED <<recs, appCache, req, now, poolvars, job>>

\* DELETE /admin/api/keys when db.write() is done: appCache.flushAll()
deleteKeysFlush ==
    /\ admin.pc = "flush"
    /\ appCache' = <<>>
    /\ admin' = Reply("deleteKeys", 200, <<>>)
    /\ UNCHANGED <<recs, dbKeys, req, now, poolvars, job>>

\* POST /admin/api/cache/flush: appCache.flushAll()
flushCache(providedAdminKey) ==
    /\ admin.pc = "done"
    /\ IF ~adminAuthMiddleware(providedAdminKey)
       THEN /\ admin' = Reply("flushCache", 401, <<>>)
            /\ appCache' = appCache
       ELSE /\ appCache' = <<>>
            /\ admin' = Reply("flushCache", 200, <<>>)
    /\ UNCHANGED <<recs, dbKeys, req, now, poolvars, job>>

AuthHorizon == StartTime + AuthTicks * AuthStep

\* No request is between its checks and its update.  incrementKeyUsage awaits
\* getDb(), which is settled once the database is open, so the update runs as
\* a microtask of the turn that ran the checks: no other handler, no timer
\* and no I/O callback runs in between.
Quiescent == \A r \in Reqs : req[r].pc /= "increment"

Create ==
    /\ Quiescent
    /\ \E validityDays \in ValidityDays : postKeys(ADMIN_KEY, KeyName, validityDays)

SetExpiration ==
    /\ Quiescent
    /\ \E i \in 1..Len(recs) : \E newDate \in ExpirationDates :
          updateKeyExpiration(recs[i].creationDate, newDate)

Start ==
    /\ Quiescent
    /\ \E r \in Reqs : \E providedKey \in Tokens \cup {Null, UnknownToken} :
          \E ip \in Ips : \E userAgent \in UserAgents :
              StartRequest(r, providedKey, ip, userAgent)

Step ==
    \E r \in Reqs :
        \/ Quiescent /\ Check(r)
        \/ Increment(r)
        \/ Quiescent /\ validateKey(r)

AuthTick == Quiescent /\ now < AuthHorizon /\ Tick(AuthStep)

NextAuth == Create \/ SetExpiration \/ Start \/ Step \/ AuthTick

SpecAuth == Init /\ [][NextAuth]_vars

(* ------------------ the guard and the cache flush route --------------- *)
\* The flush route is synchronous: it runs between two turns of the requests
\* in flight.
FlushCache == Quiescent /\ \E providedAdminKey \in AdminKeys : flushCache(providedAdminKey)

NextCache == Create \/ Start \/ Step \/ AuthTick \/ FlushCache

SpecCache == Init /\ [][NextCache]_vars

(* ------------- the guard, the pool and /api/process-image ------------- *)
\* The process starts with a db.json that an earlier run wrote: it holds one
\* key, never used.
InitHandler ==
    /\ keys = loadKeys
    /\ now = StartTime
    /\ last = [op |-> "none", user |-> Null, key |-> Null, was |-> "-", path |-> "-",
               stale |-> FALSE]
    /\ recs = <<NewKeyData(1, 1)>>
    /\ dbKeys = <<1>>
    /\ appCache = <<>>
    /\ req = [r \in 1..NumReqs |-> IdleRequest]
    /\ admin = IdleAdmin
    /\ job = [r \in 1..NumReqs |-> IdleJob]

HandlerHorizon == StartTime + HandlerTicks * HandlerStep

\* The clients differ by their address.
StartImage ==
    /\ Quiescent
    /\ \E r \in Reqs : \E providedKey \in Tokens \cup {UnknownToken} : \E ip \in Ips :
          StartRequest(r, providedKey, ip, 1)

Handle ==
    /\ Quiescent
    /\ \E r \in Reqs :
          \/ Check(r)
          \/ \E image \in BOOLEAN : processImage(r, image)
          \/ generateContentStream(r)
          \/ streamEnd(r)
          \/ catchError(r)

Update == \E r \in Reqs : Increment(r)

HandlerTick == Quiescent /\ now < HandlerHorizon /\ Tick(HandlerStep)

NextHandler == SetExpiration \/ StartImage \/ Handle \/ Update \/ HandlerTick

SpecHandler == InitHandler /\ [][NextHandler]_vars

(* --------- two clients of /api/process-image share the pool ----------- *)
\* The process starts with a db.json that holds one key per client, never
\* used.  A client is a caller of the pool: the handler passes its access key
\* as userId.
ClientTokens == 1..NumClients

InitClients ==
    /\ keys = loadKeys
    /\ now = StartTime
    /\ last = [op |-> "none", user |-> Null, key |-> Null, was |-> "-", path |-> "-",
               stale |-> FALSE]
    /\ recs = [i \in 1..NumClients |-> NewKeyData(i, 1)]
    /\ dbKeys = [i \in 1..NumClients |-> i]
    /\ appCache = <<>>
    /\ req = [r \in 1..NumReqs |-> IdleRequest]
    /\ admin = IdleAdmin
    /\ job = [r \in 1..NumReqs |-> IdleJob]

\* Each client keeps to one device and sends its next request when it has
\* the answer to the one before: request r is the one of client r.
StartClient ==
    /\ Quiescent
    /\ \E providedKey \in ClientTokens \cap Reqs : StartRequest(providedKey, providedKey, 1, 1)

NextClients == StartClient \/ Handle \/ Update \/ HandlerTick

SpecClients == InitClients /\ [][NextClients]_vars

(* ---------- the guard together with every admin route on keys --------- *)
PostKeys ==
    /\ Quiescent
    /\ \E providedAdminKey \in AdminKeys : \E name \in Names :
          \E validityDays \in ValidityDays \cup {Null} :
              postKeys(providedAdminKey, name, validityDays)

GetKeys == Quiescent /\ \E providedAdminKey \in AdminKeys : getKeys(providedAdminKey)

\* the creationDate in the body of a delete request: missing, of no record,
\* or of a record
CreationDates == {Null, StartTime - 1} \cup {recs[i].creationDate : i \in 1..Len(recs)}

DeleteKeys ==
    /\ Quiescent
    /\ \E providedAdminKey \in AdminKeys : \E creationDate \in CreationDates :
          deleteKeys(providedAdminKey, creationDate)

DeleteKeysFlush == Quiescent /\ deleteKeysFlush

NextAdmin == PostKeys \/ GetKeys \/ DeleteKeys \/ DeleteKeysFlush \/ Start \/ Step

SpecAdmin == Init /\ [][NextAdmin]_vars

(* ===================== claims about the pool ========================== *)

\* C1. Affinity: a caller that holds an in_use key whose lease is fresh
\* (now - lastUsed < KEY_LOCK_DURATION) gets that same key from every further
\* getKeyForUser, never another key and never null, whatever the other keys
\* look like; the key stays in_use by the caller with lastUsed refreshed.
C1_Affinity ==
    [][\A u \in Users : \A c \in Keys :
        (/\ getKeyForUser(u)
         /\ keys[c].status = "in_use"
         /\ keys[c].user = u
         /\ now - keys[c].lastUsed < KEY_LOCK_DURATION)
        => (/\ last'.key = c
            /\ keys'[c] = [status |-> "in_use", user |-> u,
                           lastUsed |-> now, errorSince |-> keys[c].errorSince]
            /\ \A k \in Keys \ {c} : keys'[k] = keys[k])]_vars

\* C1 witness: a caller was given back its own key while an earlier key of the
\* scan order could have been handed out and another caller holds a key.
C1_Witness ==
    /\ last.op = "getKeyForUser"
    /\ last.path = "active"
    /\ last.key = 2
    /\ keys[1].status = "in_use"
    /\ keys[1].user /= last.user
    /\ now - keys[1].lastUsed > KEY_LOCK_DURATION

\* C2. Exhaustion and stale reuse: when every key is in_use by callers other
\* than u, getKeyForUser(u) returns null and changes nothing as long as no
\* lease is older than KEY_LOCK_DURATION; once one is older, it returns the
\* first such key of the scan order, which is then in_use by u.
C2_ExhaustionAndStaleReuse ==
    [][\A u \in Users :
        (/\ getKeyForUser(u)
         /\ \A k \in Keys : keys[k].status = "in_use" /\ keys[k].user /= u)
        => LET stale == {k \in Keys : now - keys[k].lastUsed > KEY_LOCK_DURATION}
           IN  IF stale = {}
               THEN last'.key = Null /\ keys' = keys
               ELSE /\ last'.key \in stale
                    /\ \A k \in stale : last'.key <= k
                    /\ keys'[last'.key].status = "in_use"
                    /\ keys'[last'.key].user = u
                    /\ keys'[last'.key].lastUsed = now]_vars

\* C2 witness: a new caller took over a stale lease while every other key is
\* still held by someone else with a lease that is not stale.
C2_Witness ==
    /\ last.op = "getKeyForUser"
    /\ last.path = "assigned"
    /\ last.was = "in_use"
    /\ \A k \in Keys \ {last.key} :
          /\ keys[k].status = "in_use"
          /\ keys[k].user /= last.user
          /\ now - keys[k].lastUsed <= KEY_LOCK_DURATION
          /\ now - keys[k].lastUsed > 0

\* C3. Fault quarantine: reportError(c) stamps errorSince = now; while
\* now - errorSince <= KEY_ERROR_COOLDOWN no getKeyForUser returns c or changes
\* it, and the call returns null when no other key can be handed out; once
\* now - errorSince > KEY_ERROR_COOLDOWN a caller that holds no key is given
\* some key no later than c in the scan order, and when c is the one returned
\* it is in_use by the caller with errorSince cleared.
C3_FaultQuarantine ==
    [][/\ \A c \in Keys : reportError(c) =>
              keys'[c].status = "error" /\ keys'[c].errorSince = now
       /\ \A u \in Users : \A c \in Keys :
            (getKeyForUser(u) /\ keys[c].status = "error") =>
               IF now - keys[c].errorSince <= KEY_ERROR_COOLDOWN
               THEN /\ last'.key /= c
                    /\ keys'[c] = keys[c]
                    /\ (\A k \in Keys \ {c} :
                          \/ (keys[k].status = "error"
                              /\ now - keys[k].errorSince <= KEY_ERROR_COOLDOWN)
                          \/ (keys[k].status = "in_use" /\ keys[k].user /= u
                              /\ now - keys[k].lastUsed <= KEY_LOCK_DURATION))
                       => last'.key = Null
               ELSE /\ (\A k \in Keys : ~(keys[k].status = "in_use" /\ keys[k].user = u))
                          => (last'.key \in Keys /\ last'.key <= c)
                    /\ last'.key = c =>
                          keys'[c] = [status |-> "in_use", user |-> u,
                                      lastUsed |-> now, errorSince |-> 0]]_vars

\* C3 witness: a key that was reported faulty has been handed out again after
\* its cooldown, and its error stamp is cleared.
C3_Witness ==
    /\ last.op = "getKeyForUser"
    /\ last.path = "assigned"
    /\ last.was = "error"
    /\ keys[last.key].status = "in_use"
    /\ keys[last.key].errorSince = 0

\* C4 as stated: the status of a key changes only along
\* available -> in_use -> {available | error} -> ..., and never from
\* available to error directly.
C4_Original ==
    [][\A k \in Keys :
        keys'[k].status /= keys[k].status =>
            <<keys[k].status, keys'[k].status>> \in
                {<<"available", "in_use">>, <<"in_use", "available">>,
                 <<"in_use", "error">>, <<"error", "available">>,
                 <<"error", "in_use">>}]_vars

\* C4 as amended: the status of a key changes only from available to in_use,
\* from in_use to error, from error to in_use, or from available to error; the
\* last happens only when reportError is called on a key that was never handed
\* out.  getKeyForUser never makes a key faulty, and no key becomes available
\* again: a stale lease stays in_use until the key is handed to someone else.
C4_Amended ==
    [][/\ \A k \in Keys :
            keys'[k].status /= keys[k].status =>
               \/ /\ <<keys[k].status, keys'[k].status>> \in
                        {<<"available", "in_use">>, <<"error", "in_use">>}
                  /\ \E u \in Users : getKeyForUser(u) /\ last'.key = k
               \/ /\ <<keys[k].status, keys'[k].status>> = <<"in_use", "error">>
                  /\ reportError(k)
               \/ /\ <<keys[k].status, keys'[k].status>> = <<"available", "error">>
                  /\ reportError(k)
                  /\ keys[k].lastUsed = 0
       /\ \A k \in Keys : keys[k].status = "available" => keys[k].lastUsed = 0]_vars

\* C4 witness: a key that was never handed out has been reported faulty.
C4_Witness ==
    /\ last.op = "reportError"
    /\ last.key \in Keys
    /\ last.was = "available"
    /\ keys[last.key].status = "error"
    /\ keys[last.key].lastUsed = 0

\* C5. For each caller at most one key is in_use and assigned to it.
C5_OneKeyPerCaller ==
    \A u \in Users :
        Cardinality({k \in Keys : keys[k].status = "in_use" /\ keys[k].user = u}) <= 1

\* C5 witness: every key is in_use, each by a different caller, and the last
\* call was a repeated getKeyForUser of a caller that already held a stale key.
C5_Witness ==
    /\ \A k \in Keys : keys[k].status = "in_use"
    /\ \A j, k \in Keys : j /= k => keys[j].user /= keys[k].user
    /\ last.op = "getKeyForUser"
    /\ last.path = "active"
    /\ \E k \in Keys \ {last.key} : now - keys[k].lastUsed > KEY_LOCK_DURATION

\* C6. No lease theft: getKeyForUser(u) never returns a key that is in_use by
\* another caller with now - lastUsed <= KEY_LOCK_DURATION; what it returns
\* was in_use by u, available, in_use with a stale lease, or faulty with the
\* cooldown elapsed.  Every other caller whose lease is not stale keeps its key,
\* so two callers that acquire within KEY_LOCK_DURATION hold distinct keys.
C6_NoLeaseTheft ==
    [][\A u \in Users :
        getKeyForUser(u) =>
          LET c == last'.key
          IN  /\ c /= Null =>
                   \/ (keys[c].status = "in_use" /\ keys[c].user = u)
                   \/ keys[c].status = "available"
                   \/ (keys[c].status = "in_use"
                       /\ now - keys[c].lastUsed > KEY_LOCK_DURATION)
                   \/ (keys[c].status = "error"
                       /\ now - keys[c].errorSince > KEY_ERROR_COOLDOWN)
              /\ \A k \in Keys :
                   (/\ keys[k].status = "in_use"
                    /\ keys[k].user /= u
                    /\ now - keys[k].lastUsed <= KEY_LOCK_DURATION)
                   => (c /= k /\ keys'[k] = keys[k])]_vars

\* C6 witness: a caller asked for a key exactly KEY_LOCK_DURATION after another
\* caller was given the first key, and was given a different one.
C6_Witness ==
    /\ last.op = "getKeyForUser"
    /\ last.path = "assigned"
    /\ last.key = 2
    /\ keys[1].status = "in_use"
    /\ keys[1].user /= last.user
    /\ now - keys[1].lastUsed = KEY_LOCK_DURATION

(* ===================== claims about the guard ========================= *)

\* The request r has reached the checks with a record that has not expired.
CheckingValidKey(r) ==
    /\ Check(r)
    /\ req[r].keyData /= Null
    /\ now <= recs[req[r].keyData].expirationDate

\* The last accepted use of r's record is less than LOCK_DURATION old.
RecentlyUsed(r) ==
    /\ recs[req[r].keyData].lastUsedTime /= Null
    /\ now - recs[req[r].keyData].lastUsedTime < LOCK_DURATION

\* r comes from the address and the user agent of the last accepted use.
SameFingerprint(r) ==
    /\ recs[req[r].keyData].lastUsedIp = req[r].ip
    /\ recs[req[r].keyData].lastUsedUserAgent = req[r].userAgent

\* Once past the checks a request only ends with next(), i.e. allowed.
AcceptedOncePastTheChecks ==
    \A r \in Reqs :
        /\ Increment(r) => req'[r].pc = "finish" /\ req'[r].result = "-"
        /\ Finish(r) => req'[r].pc = "done" /\ req'[r].result = "next"

\* C7. A request with a valid, unexpired key whose last accepted use is less
\* than LOCK_DURATION old and came from another fingerprint (another ip or
\* another user agent) is answered 429 "another device" and records nothing;
\* that earlier use was itself accepted.
C7_DeviceConflict ==
    [][\A r \in Reqs :
        /\ (CheckingValidKey(r) /\ RecentlyUsed(r) /\ ~SameFingerprint(r))
              => (/\ req'[r].pc = "done"
                  /\ req'[r].result = "429_device"
                  /\ recs' = recs)
        /\ Increment(r) => req'[r].pc = "finish"
        /\ Finish(r) => req'[r].result = "next"]_vars

\* C7 witness: a request was accepted and, less than LOCK_DURATION later, a
\* request with the same key and ip but another user agent was answered 429.
C7_Witness ==
    \E r1, r2 \in Reqs :
        /\ req[r1].result = "next"
        /\ req[r2].result = "429_device"
        /\ req[r1].providedKey = req[r2].providedKey
        /\ req[r1].ip = req[r2].ip
        /\ req[r1].userAgent /= req[r2].userAgent
        /\ recs[req[r2].keyData].lastUsedUserAgent = req[r1].userAgent
        /\ recs[req[r2].keyData].requestCount = 1
        /\ now - recs[req[r2].keyData].lastUsedTime < LOCK_DURATION
        /\ now > recs[req[r2].keyData].lastUsedTime

\* C8. A request with a valid, unexpired key whose last accepted use is less
\* than LOCK_DURATION old and came from the same fingerprint passes the checks,
\* and a request that passed the checks is allowed.
C8_SameDeviceAllowed ==
    [][/\ \A r \in Reqs :
            (CheckingValidKey(r) /\ RecentlyUsed(r) /\ SameFingerprint(r))
               => (req'[r].pc = "increment" /\ req'[r].isLocked)
       /\ AcceptedOncePastTheChecks]_vars

\* C8 witness: the same device was allowed twice within LOCK_DURATION.
C8_Witness ==
    \E r \in Reqs :
        /\ req[r].result = "next"
        /\ req[r].isLocked
        /\ req[r].updatedKeyData /= Null
        /\ recs[req[r].updatedKeyData].requestCount = 2
        /\ recs[req[r].updatedKeyData].lastUsedIp = req[r].ip
        /\ recs[req[r].updatedKeyData].lastUsedUserAgent = req[r].userAgent

\* C9. A request whose key matches a record with an expiration in the past is
\* answered 401 "expired", whatever its fingerprint and whether or not the
\* record was used recently, by this device or another; nothing is recorded.
C9_Expired ==
    [][\A r \in Reqs :
        (/\ Check(r)
         /\ req[r].keyData /= Null
         /\ now > recs[req[r].keyData].expirationDate)
        => (/\ req'[r].pc = "done"
            /\ req'[r].result = "401_expired"
            /\ recs' = recs
            /\ appCache' = appCache)]_vars

\* C9 witness: an expired key was refused while another device had used it
\* less than LOCK_DURATION before.
C9_Witness ==
    \E r \in Reqs :
        /\ req[r].result = "401_expired"
        /\ recs[req[r].keyData].lastUsedTime /= Null
        /\ now - recs[req[r].keyData].lastUsedTime < LOCK_DURATION
        /\ recs[req[r].keyData].lastUsedIp /= req[r].ip
        /\ now > recs[req[r].keyData].expirationDate

\* C10. createKey stores a record that has never been used and has not
\* expired; a request with a valid, unexpired key that has never been used
\* passes the checks whatever its fingerprint, and is then allowed.
C10_FreshKeyAllowed ==
    [][/\ (\E d \in ValidityDays : createKey(d)) =>
              (/\ recs'[Len(recs')].lastUsedTime = Null
               /\ recs'[Len(recs')].requestCount = 0
               /\ recs'[Len(recs')].expirationDate > now)
       /\ \A r \in Reqs :
            (CheckingValidKey(r) /\ recs[req[r].keyData].lastUsedTime = Null)
               => (req'[r].pc = "increment" /\ ~req'[r].isLocked)
       /\ \A r \in Reqs : Increment(r) => req'[r].pc = "finish"
       /\ \A r \in Reqs : Finish(r) => (req'[r].pc = "done" /\ req'[r].result = "next")]_vars

\* C10 witness: the first request ever made with a key was allowed.
C10_Witness ==
    \E r \in Reqs :
        /\ req[r].result = "next"
        /\ ~req[r].isLocked
        /\ req[r].updatedKeyData /= Null
        /\ recs[req[r].updatedKeyData].requestCount = 1
        /\ recs[req[r].updatedKeyData].lastUsedIp = req[r].ip
        /\ recs[req[r].updatedKeyData].lastUsedUserAgent = req[r].userAgent
        /\ recs[req[r].updatedKeyData].lastUsedTime = now

(* ============== claims about concurrent requests ====================== *)

\* C11. The check and the update of a request are atomic per key record: no
\* use is recorded (and then allowed) for a request while the record in the
\* store is locked by another fingerprint, i.e. while another ip or user
\* agent was recorded in it less than LOCK_DURATION ago.  So of two
\* concurrent requests with one key from two devices at most one is allowed
\* within a LOCK_DURATION window.
C11_AtomicCheckThenUpdate ==
    [][\A r \in Reqs :
        (Increment(r) /\ req'[r].updatedKeyData /= Null)
        => ~(/\ recs[req'[r].updatedKeyData].lastUsedTime /= Null
             /\ now - recs[req'[r].updatedKeyData].lastUsedTime < LOCK_DURATION
             /\ \/ recs[req'[r].updatedKeyData].lastUsedIp /= req[r].ip
                \/ recs[req'[r].updatedKeyData].lastUsedUserAgent /= req[r].userAgent)]_vars

\* C12. requestCount never decreases.  Every request that is allowed adds
\* exactly 1 to the requestCount of the record of its key in the store and
\* sets lastUsedIp, lastUsedUserAgent and lastUsedTime to its own values; a
\* request answered 401 (invalid or expired) or 429 leaves every record as
\* it was.
C12_UsageRecorded ==
    [][/\ \A i \in 1..Len(recs) : recs'[i].requestCount >= recs[i].requestCount
       /\ \A r \in Reqs :
            Increment(r) =>
               \E i \in 1..Len(dbKeys) :
                  /\ recs[dbKeys[i]].keyHash = <<"bcrypt", req[r].providedKey>>
                  /\ recs'[dbKeys[i]].requestCount = recs[dbKeys[i]].requestCount + 1
                  /\ recs'[dbKeys[i]].lastUsedIp = req[r].ip
                  /\ recs'[dbKeys[i]].lastUsedUserAgent = req[r].userAgent
                  /\ recs'[dbKeys[i]].lastUsedTime = now
       /\ \A r \in Reqs :
            Finish(r) => (req'[r].result = "next" /\ recs' = recs /\ dbKeys' = dbKeys)
       /\ \A r \in Reqs :
            (Check(r) /\ req'[r].pc = "done")
            => (/\ req'[r].result \in {"401_invalid", "401_expired", "429_device"}
                /\ recs' = recs
                /\ dbKeys' = dbKeys)]_vars

\* C13. A request whose key matches no record of the store is answered 401
\* "invalid access key"; it never reaches the lock check or the usage update
\* and changes neither the store nor the cache.
C13_InvalidToken ==
    [][\A r \in Reqs :
        /\ (/\ req[r].pc \in {"idle", "done"}
            /\ req'[r].pc = "check"
            /\ \A i \in 1..Len(dbKeys) :
                  recs[dbKeys[i]].keyHash /= <<"bcrypt", req'[r].providedKey>>)
             => req'[r].keyData = Null
        /\ (Check(r) /\ req[r].keyData = Null)
             => (/\ req'[r].pc = "done"
                 /\ req'[r].result = "401_invalid"
                 /\ ~req'[r].isLocked
                 /\ req'[r].updatedKeyData = Null
                 /\ recs' = recs
                 /\ dbKeys' = dbKeys
                 /\ appCache' = appCache)
        /\ (req[r].pc = "done" /\ req[r].result = "401_invalid")
             => (~Check(r) /\ ~Increment(r) /\ ~Finish(r))]_vars

\* C13 witness: a key that no record matches was answered 401 "invalid access
\* key" while the store held a record that had been used and cached.
C13_Witness ==
    \E r \in Reqs :
        /\ req[r].result = "401_invalid"
        /\ req[r].providedKey = UnknownToken
        /\ Len(dbKeys) > 0
        /\ recs[dbKeys[1]].requestCount > 0
        /\ DOMAIN appCache /= {}

(* ================= further claims about the pool ====================== *)

\* C14 as stated: reportError is idempotent.  A second reportError of the
\* same key right after the first (no other call of the pool in between)
\* leaves the pool as the first call left it: same status, same user, same
\* errorSince, hence the same instant at which the key can be handed out
\* again.
C14_Original ==
    [][\A k \in Keys :
        (reportError(k) /\ last.op = "reportError" /\ last.key = k)
        => keys' = keys]_vars

\* C14 amended: a second reportError of the same key right after the first
\* leaves status "error", user null and lastUsed as they are and sets
\* errorSince to the time of the second call, and leaves the other keys
\* alone; the pool is as the first call left it exactly when no time has
\* passed between the two calls, otherwise the cooldown starts again.
C14_Amended ==
    [][\A k \in Keys :
        (reportError(k) /\ last.op = "reportError" /\ last.key = k)
        => (/\ keys[k].status = "error" /\ keys[k].user = Null
            /\ keys'[k].status = "error"
            /\ keys'[k].user = Null
            /\ keys'[k].lastUsed = keys[k].lastUsed
            /\ keys'[k].errorSince = now
            /\ \A j \in Keys \ {k} : keys'[j] = keys[j]
            /\ (keys' = keys) <=> (keys[k].errorSince = now))]_vars

\* C14 witness: a key was reported twice in a row, the second time later
\* than the first, and its errorSince is the time of the second report.
C14_Witness ==
    \E k \in Keys :
        /\ last.op = "reportError" /\ last.key = k /\ last.was = "error"
        /\ keys[k].status = "error"
        /\ keys[k].errorSince = now
        /\ now > StartTime
        /\ keys[k].lastUsed > 0
        /\ keys[k].errorSince - keys[k].lastUsed > KEY_ERROR_COOLDOWN

\* C16. reportError of a key of the pool always leaves that key with status
\* "error", no user and errorSince = now, whatever its status and holder
\* were, and touches no other key; no key becomes "error" in any other way,
\* and getKeyForUser never sets a key to "error".
C16_ReportErrorUnconditional ==
    [][/\ \A k \in Keys :
            reportError(k)
            => (/\ keys'[k] = [status |-> "error", user |-> Null,
                               lastUsed |-> keys[k].lastUsed, errorSince |-> now]
                /\ \A j \in Keys \ {k} : keys'[j] = keys[j])
       /\ \A k \in Keys :
            (keys'[k].status = "error" /\ keys'[k] /= keys[k])
            => (last'.op = "reportError" /\ last'.key = k)
       /\ \A u \in Users :
            getKeyForUser(u)
            => \A k \in Keys : keys'[k].status = "error" => keys'[k] = keys[k]]_vars

\* C16 witness: a key whose lease was fresh was reported while another key
\* was still in error, and is now in error itself with no user.
C16_Witness ==
    \E k, j \in Keys :
        /\ k /= j
        /\ last.op = "reportError" /\ last.key = k /\ last.was = "in_use"
        /\ keys[k] = [status |-> "error", user |-> Null,
                      lastUsed |-> keys[k].lastUsed, errorSince |-> now]
        /\ keys[k].lastUsed > 0
        /\ now - keys[k].lastUsed < KEY_LOCK_DURATION
        /\ keys[j].status = "error"
        /\ keys[j].errorSince < now

\* C17. Selection is deterministic.  A caller that holds no in_use key gets
\* the first key, in the order in which loadKeys inserted them, that is
\* available, in_use with a lease older than KEY_LOCK_DURATION, or in error
\* for longer than KEY_ERROR_COOLDOWN, and null if there is none; a caller
\* that holds a key gets that key.  The key returned and the state reached
\* are functions of the state, the caller and the time of the call.
C17_FirstEligibleInLoadOrder ==
    [][\A u \in Users :
        getKeyForUser(u) =>
          LET Held == {k \in Keys : keys[k].user = u /\ keys[k].status = "in_use"}
              Eligible == {k \in Keys :
                             \/ keys[k].status = "available"
                             \/ /\ keys[k].status = "in_use"
                                /\ now - keys[k].lastUsed > 2 * 60 * 1000
                             \/ /\ keys[k].status = "error"
                                /\ now - keys[k].errorSince > 5 * 60 * 1000}
          IN  IF Held /= {}
              THEN \E k \in Held :
                      /\ \A j \in Held : k <= j
                      /\ last'.key = k
                      /\ keys' = [keys EXCEPT ![k].lastUsed = now]
              ELSE IF Eligible /= {}
              THEN \E k \in Eligible :
                      /\ \A j \in Eligible : k <= j
                      /\ last'.key = k
                      /\ keys' = [keys EXCEPT ![k] =
                                    [status |-> "in_use", user |-> u,
                                     lastUsed |-> now, errorSince |-> 0]]
              ELSE last'.key = Null /\ keys' = keys]_vars

\* C17 witness: the first key, whose lease had gone stale, was handed to a new
\* caller although the second key, cooled down after an error, could have
\* been handed out as well.
C17_Witness ==
    /\ NumKeys >= 2
    /\ last.op = "getKeyForUser" /\ last.path = "assigned"
    /\ last.key = 1 /\ last.was = "in_use"
    /\ keys[1] = [status |-> "in_use", user |-> last.user, lastUsed |-> now, errorSince |-> 0]
    /\ keys[2].status = "error"
    /\ now - keys[2].errorSince > KEY_ERROR_COOLDOWN

\* C18. getKeyForUser changes at most one key.  When it returns a key, that
\* key is in_use, held by the caller, with lastUsed = now and errorSince 0,
\* and every other key is as it was; when it returns null no key changes
\* (and the pool keeps no list of waiting callers: its state is the keys).
C18_AcquireFrame ==
    [][\A u \in Users :
        getKeyForUser(u) =>
          IF last'.key = Null
          THEN keys' = keys
          ELSE /\ last'.key \in Keys
               /\ keys'[last'.key].status = "in_use"
               /\ keys'[last'.key].user = u
               /\ keys'[last'.key].lastUsed = now
               /\ keys'[last'.key].errorSince = 0
               /\ \A j \in Keys \ {last'.key} : keys'[j] = keys[j]]_vars

\* C18 witness: a key that had cooled down after an error was handed out, and
\* the other key, still in its cooldown, kept its state.
C18_Witness ==
    \E k, j \in Keys :
        /\ k /= j
        /\ last.op = "getKeyForUser" /\ last.key = k /\ last.was = "error"
        /\ keys[k] = [status |-> "in_use", user |-> last.user, lastUsed |-> now, errorSince |-> 0]
        /\ keys[j].status = "error"
        /\ keys[j].errorSince > 0
        /\ now - keys[j].errorSince <= KEY_ERROR_COOLDOWN

(* ================== claims about the admin routes ===================== *)

\* C15. A create or list request without the admin key or with a wrong one
\* is answered 401 and changes neither the store nor the cache.  With the
\* right admin key a create request is answered 201 and adds exactly one
\* record to the store, and a list request is answered with the records of
\* the store (without their keyHash).
C15_AdminKeyRequired ==
    [][/\ \A k \in AdminKeys : \A name \in Names : \A d \in ValidityDays \cup {Null} :
            postKeys(k, name, d) =>
               IF k = ADMIN_KEY
               THEN /\ admin'.status = 201
                    /\ Len(dbKeys') = Len(dbKeys) + 1
                    /\ \A i \in 1..Len(dbKeys) : recs'[dbKeys'[i]] = recs[dbKeys[i]]
                    /\ recs'[dbKeys'[Len(dbKeys')]].requestCount = 0
               ELSE /\ admin'.status = 401
                    /\ recs' = recs /\ dbKeys' = dbKeys /\ appCache' = appCache
       /\ \A k \in AdminKeys :
            getKeys(k) =>
               IF k = ADMIN_KEY
               THEN /\ admin'.status = 200
                    /\ Len(admin'.body) = Len(dbKeys)
                    /\ \A i \in 1..Len(dbKeys) :
                          /\ "keyHash" \notin DOMAIN admin'.body[i]
                          /\ \A f \in DOMAIN admin'.body[i] :
                                admin'.body[i][f] = recs[dbKeys[i]][f]
                          /\ DOMAIN recs[dbKeys[i]] = DOMAIN admin'.body[i] \cup {"keyHash"}
                    /\ appCache' = appCache
               ELSE /\ admin'.status = 401
                    /\ recs' = recs /\ dbKeys' = dbKeys /\ appCache' = appCache]_vars

(* ============= claims about /api/process-image ======================== *)

\* the answers with which userAuthMiddleware rejects a request
Rejections == {"401_required", "401_invalid", "401_expired", "429_device"}

\* C19. The handler calls getKeyForUser for a request only when
\* userAuthMiddleware has called next() for it.  The pool changes only in the
\* handler of an allowed request; a request answered 401 (invalid, expired)
\* or 429 never changes the pool and never reaches the handler.  When
\* getKeyForUser returns null, and only then, the allowed request is answered
\* 503, which is none of the answers of the middleware.
C19_AcquireAfterAllowed ==
    [][/\ \A r \in Reqs :
            (job'[r] /= job[r] /\ job[r] = IdleJob)
            => (req[r].pc = "finish" /\ req'[r].pc = "done" /\ req'[r].result = "next")
       /\ (keys' /= keys \/ last' /= last)
            => \E r \in Reqs :
                  \/ req[r].pc = "finish" /\ req'[r].result = "next"
                  \/ job[r].pc \in {"upstream", "stream"} /\ job'[r].pc = "done"
       /\ \A r \in Reqs :
            (Check(r) /\ req'[r].pc = "done")
            => (/\ req'[r].result \in Rejections
                /\ keys' = keys /\ last' = last
                /\ job'[r] = IdleJob)
       /\ \A r \in Reqs :
            (req[r].pc = "done" /\ req[r].result \in Rejections)
            => (job[r] = IdleJob /\ job'[r] = IdleJob)
       /\ \A r \in Reqs : \A image \in BOOLEAN :
            processImage(r, image)
            => (/\ (job'[r].status = 503) <=> (last'.key = Null)
                /\ last'.key = Null => (keys' = keys /\ job'[r].pc = "done")
                /\ last'.key /= Null => job'[r].apiKey = last'.key
                /\ last'.op = "getKeyForUser"
                /\ last'.user = req[r].providedKey
                /\ req'[r].result = "next")]_vars

\* C19 witness: a request from another address was answered 429 and left the
\* pool alone, while the request that was allowed holds the first key and
\* waits for the upstream call; the second key was never touched.
C19_Witness ==
    \E r1, r2 \in Reqs :
        /\ req[r1].result = "next"
        /\ job[r1].pc = "upstream" /\ job[r1].apiKey = 1
        /\ keys[1].status = "in_use" /\ keys[1].user = req[r1].providedKey
        /\ req[r2].result = "429_device"
        /\ req[r2].providedKey = req[r1].providedKey
        /\ job[r2] = IdleJob
        /\ last.op = "getKeyForUser" /\ last.key = 1
        /\ keys[2] = NewKeyState

\* C20. When an await of the handler throws after the request got key c, the
\* catch calls reportError(c), for that key and no other, in the step that
\* answers: right after it c is in error with errorSince = now, and no
\* request is handed c until more than KEY_ERROR_COOLDOWN has passed.  A
\* request whose stream ends normally never reports its key.
C20_ReportOnFailure ==
    [][/\ \A r \in Reqs :
            (job[r].pc \in {"upstream", "stream"} /\ job'[r].pc = "done")
            => \/ /\ job[r].pc = "stream" /\ job'[r].status = 200
                  /\ keys' = keys /\ last' = last
               \/ /\ job[r].apiKey \in Keys
                  /\ last'.op = "reportError" /\ last'.key = job[r].apiKey
                  /\ keys'[job[r].apiKey] =
                        [status |-> "error", user |-> Null,
                         lastUsed |-> keys[job[r].apiKey].lastUsed, errorSince |-> now]
                  /\ \A j \in Keys \ {job[r].apiKey} : keys'[j] = keys[j]
       /\ \A r \in Reqs :
            catchError(r) => (last'.op = "reportError" /\ keys'[job[r].apiKey].status = "error")
       /\ \A r \in Reqs :
            (streamEnd(r) \/ generateContentStream(r)) => (keys' = keys /\ last' = last)
       /\ \A r \in Reqs :
            (job'[r].apiKey /= Null /\ job[r].apiKey = Null)
            => ~(/\ keys[job'[r].apiKey].status = "error"
                 /\ now - keys[job'[r].apiKey].errorSince <= 5 * 60 * 1000)]_vars

\* C20 witness: the upstream calls of two requests failed, each key was
\* reported by the request that held it, and a later request, made within the
\* cooldown of both, was answered 503.
C20_Witness ==
    \E r1, r2 \in Reqs :
        /\ r1 /= r2
        /\ job[r1].status = 500 /\ job[r1].apiKey \in Keys
        /\ job[r2].status = 503 /\ job[r2].apiKey = Null
        /\ last.op = "getKeyForUser" /\ last.key = Null
        /\ \A k \in Keys :
              /\ keys[k].status = "error" /\ keys[k].user = Null
              /\ now - keys[k].errorSince <= KEY_ERROR_COOLDOWN
        /\ \E k \in Keys : now > keys[k].errorSince

(* ================ further claims about the guard ====================== *)

\* C21. The lock ends by itself.  A request with a valid, unexpired key whose
\* last accepted use is LOCK_DURATION or more old passes the checks as not
\* locked, from whatever ip and user agent it comes, and is then allowed;
\* there is no unlock operation.  A request answered 429 leaves lastUsedTime
\* (and the whole record) as it was, so it does not prolong the lock.
C21_LockSelfExpires ==
    [][/\ \A r \in Reqs :
            (/\ Check(r)
             /\ req[r].keyData /= Null
             /\ now <= recs[req[r].keyData].expirationDate
             /\ recs[req[r].keyData].lastUsedTime /= Null
             /\ now - recs[req[r].keyData].lastUsedTime >= 30 * 1000)
            => (req'[r].pc = "increment" /\ ~req'[r].isLocked)
       /\ \A r \in Reqs : Increment(r) => req'[r].pc = "finish"
       /\ \A r \in Reqs : Finish(r) => req'[r].result = "next"
       /\ \A r \in Reqs :
            (Check(r) /\ req'[r].result = "429_device") => recs' = recs]_vars

\* C21 witness: a device was refused 429 inside the lock window of another
\* device's use, and exactly LOCK_DURATION after that use, which is still the
\* last one recorded, a request from a device other than the recorded one has
\* passed the checks.
C21_Witness ==
    \E r1, r2 \in Reqs :
        /\ req[r2].result = "429_device"
        /\ req[r1].pc = "increment" /\ ~req[r1].isLocked
        /\ req[r1].providedKey = req[r2].providedKey
        /\ recs[req[r1].keyData].requestCount = 1
        /\ recs[req[r1].keyData].lastUsedTime /= Null
        /\ now - recs[req[r1].keyData].lastUsedTime = LOCK_DURATION
        /\ recs[req[r1].keyData].lastUsedIp /= req[r1].ip

\* C24. A request is allowed only if its usage update was applied to a record
\* of the store: next() is called only after incrementKeyUsage found the
\* record of the key and returned it.
C24_AllowedOnlyIfRecorded ==
    [][\A r \in Reqs :
          (req[r].pc = "finish" /\ req'[r].result = "next")
          => /\ req[r].updatedKeyData /= Null
             /\ \E i \in 1..Len(dbKeys) : dbKeys[i] = req[r].updatedKeyData]_vars

\* C25. Once DELETE /admin/api/keys has answered 200 (record removed, cache
\* flushed), the cache holds no entry under a key that has no record in the
\* store, whatever requests with that key were in flight during the delete.
C25_NoCacheEntryAfterDelete ==
    (admin.op = "deleteKeys" /\ admin.pc = "done" /\ admin.status = 200)
    => \A t \in DOMAIN appCache : IndexByHash(Hash(t)) /= Null

(* ================ further claims about the pool ======================= *)

\* C26. In every state of the pool and for every key: user is set exactly
\* when status is in_use, errorSince is non-zero exactly when status is
\* error, and the keys of the Map are the keys loaded at startup.
C26_PoolInvariant ==
    /\ DOMAIN keys = Keys
    /\ \A k \in Keys :
         /\ (keys[k].user /= Null) <=> (keys[k].status = "in_use")
         /\ (keys[k].errorSince /= 0) <=> (keys[k].status = "error")

\* C26 witness: a key went through error and, its cooldown over, was handed
\* out again, while another key is in error.
C26_Witness ==
    /\ last.op = "getKeyForUser" /\ last.path = "assigned" /\ last.was = "error"
    /\ keys[last.key].status = "in_use" /\ keys[last.key].user = last.user
    /\ keys[last.key].errorSince = 0
    /\ \E k \in Keys : keys[k].status = "error" /\ keys[k].user = Null
                          /\ keys[k].errorSince /= 0

\* C27. The first loop does not look at the age of the lease: a user who
\* holds a key in_use gets that key from getKeyForUser, with lastUsed set to
\* now, also when the lease was older than KEY_LOCK_DURATION and nobody took
\* the key in between.  While the lease is not older than KEY_LOCK_DURATION
\* no getKeyForUser of another user takes the key, so a user who calls again
\* within KEY_LOCK_DURATION each time keeps its key through any number of
\* getKeyForUser calls; the hold ends only by reportError.
C27_AffinityIgnoresFreshness ==
    [][\A userId \in Users : \A k \in Keys :
          (keys[k].status = "in_use" /\ keys[k].user = userId)
          => /\ getKeyForUser(userId)
                => (/\ last'.key = k
                    /\ keys'[k] = [keys[k] EXCEPT !.lastUsed = now]
                    /\ \A j \in Keys \ {k} : keys'[j] = keys[j])
             /\ ((\E other \in Users \ {userId} : getKeyForUser(other))
                    /\ now - keys[k].lastUsed <= KEY_LOCK_DURATION)
                => keys'[k] = keys[k]
             /\ (keys'[k].status /= "in_use" \/ keys'[k].user /= userId)
                => \/ last'.op = "reportError" /\ last'.key = k
                   \/ /\ last'.op = "getKeyForUser" /\ last'.user /= userId
                      /\ last'.key = k /\ last'.stale]_vars

\* C27 witness: a user got back the key it held although the lease was stale
\* at the call and the other key was free to give.
C27_Witness ==
    /\ last.op = "getKeyForUser" /\ last.path = "active" /\ last.stale
    /\ keys[last.key].status = "in_use" /\ keys[last.key].user = last.user
    /\ keys[last.key].lastUsed = now
    /\ \E j \in Keys \ {last.key} : keys[j].status = "available"

\* C29. reportError with a value that is not a key of the Map changes the
\* state of no key and adds no entry.
C29_UnknownKeyNoOp ==
    [][\A apiKey \in {UnknownKey} :
          (reportError(apiKey) /\ apiKey \notin DOMAIN keys)
          => (keys' = keys /\ DOMAIN keys' = Keys)]_vars

\* C29 witness: a value outside the Map was reported while one key was in
\* use and the other in error, and both are as they were.
C29_Witness ==
    /\ last.op = "reportError" /\ last.key = UnknownKey
    /\ DOMAIN keys = Keys
    /\ \E k \in Keys : keys[k].status = "in_use"
    /\ \E k \in Keys : keys[k].status = "error"

(* ================ further claims about the handler ==================== *)

\* C28. A request to /api/process-image answered 400 for a missing image or
\* mimeType makes no upstream call and leaves the pool as it was: no key is
\* given to it or kept for it.
C28_RejectedBodyLeavesPool ==
    [][\A r \in Reqs :
          (job[r].status /= 400 /\ job'[r].status = 400)
          => /\ job'[r].pc = "done"
             /\ keys' = keys]_vars

(* ================ the cache ========================================== *)

\* What the checks of userAuthMiddleware answer to request r, from the record
\* the request holds, its ip and user agent, and the clock: a rejection, or
\* "-" when the request goes on to the usage update.
OutcomeOfChecks(r) ==
    IF req[r].keyData = Null THEN "401_invalid"
    ELSE IF now > recs[req[r].keyData].expirationDate THEN "401_expired"
    ELSE IF /\ recs[req[r].keyData].lastUsedTime /= Null
            /\ now - recs[req[r].keyData].lastUsedTime < LOCK_DURATION
            /\ \/ recs[req[r].keyData].lastUsedIp /= req[r].ip
               \/ recs[req[r].keyData].lastUsedUserAgent /= req[r].userAgent
    THEN "429_device"
    ELSE "-"

\* C22. The cache decides nothing.  With the cache flushed at any turn, and
\* filled by the requests that were allowed, the answer of every request is
\* the one computed from its record in the store, its ip and user agent and
\* the clock; the usage update writes the record from the same; and a flush
\* changes no request and no record.
C22_CacheNotAuthoritative ==
    [][/\ \A r \in Reqs :
            Check(r) => /\ req'[r].result = OutcomeOfChecks(r)
                        /\ (req'[r].pc = "increment") <=> (OutcomeOfChecks(r) = "-")
                        /\ (req'[r].pc /= "increment") => (req'[r].pc = "done")
                        /\ recs' = recs /\ dbKeys' = dbKeys
       /\ \A r \in Reqs :
            Increment(r) =>
               /\ dbKeys' = dbKeys
               /\ Len(recs') = Len(recs)
               /\ \A i \in 1..Len(recs) :
                     recs'[i] = IF i = IndexByHash(Hash(req[r].providedKey))
                                THEN UsedKeyData(recs[i], req[r].ip, req[r].userAgent)
                                ELSE recs[i]
       /\ \A r \in Reqs :
            Finish(r) => (req'[r].result = "next" /\ recs' = recs /\ dbKeys' = dbKeys)
       /\ (\E providedAdminKey \in AdminKeys : flushCache(providedAdminKey))
            => (req' = req /\ recs' = recs /\ dbKeys' = dbKeys)]_vars

\* C22 witness: the cache was flushed after a request had filled it, and a
\* later request from the same device, inside the lock window, was seen as
\* locked from the record and had its use recorded, the cache being empty.
C22_Witness ==
    /\ admin.op = "flushCache" /\ admin.status = 200
    /\ appCache = <<>>
    /\ \E r \in Reqs :
          /\ req[r].pc = "finish" /\ req[r].isLocked
          /\ req[r].updatedKeyData /= Null
          /\ recs[req[r].updatedKeyData].requestCount = 2

\* C23. A key that a client holds with a fresh lease stops being that
\* client's only through the catch of a request of the same client: the
\* failure of another client's request, which got the same key earlier and
\* lost it when the lease went stale, leaves the key in_use for its holder.
C23_OnlyOwnErrorEndsFreshLease ==
    [][\A k \in Keys : \A userId \in Users :
          (/\ keys[k].status = "in_use" /\ keys[k].user = userId
           /\ ~isStale(keys[k])
           /\ (keys'[k].status /= "in_use" \/ keys'[k].user /= userId))
          => \E r \in Reqs : /\ job[r].pc \in {"upstream", "stream"}
                             /\ job'[r].pc = "done"
                             /\ job[r].apiKey = k
                             /\ req[r].providedKey = userId]_vars
====
